---------------------------- MODULE Spec2Model ----------------------------
(***************************************************************************)
(* JSON Master (src/script.js): the text-transformation handlers            *)
(* (format, minify, fix, validate, escape, unescape), the output/view       *)
(* state they write, and the button handlers around them.                   *)
(*                                                                         *)
(* A text is a sequence of UTF-16 code units (integers), as a JavaScript    *)
(* string is.  JSON.parse and JSON.stringify are modelled by what they do   *)
(* (ECMA-262 25.5.1, 25.5.2): a recursive-descent parse into values and a   *)
(* serialization with the standard quoting and indentation.                 *)
(*                                                                         *)
(* Numbers: a parsed number is kept as its decimal digits and the position  *)
(* of the decimal point.  This is the value of the IEEE double exactly for  *)
(* literals of at most 15 significant digits in the normal range, which is  *)
(* all the texts of this model reach; above the double range the value is   *)
(* Infinity and below it zero, as in the engine.  -0 and 0 are one number   *)
(* (they are === and serialize alike).                                      *)
(*                                                                         *)
(* Not modelled: theme, input statistics, toast animation and timers, and   *)
(* syntax highlighting (Prism.highlightElement is taken to return).         *)
(***************************************************************************)
EXTENDS Integers, Sequences, FiniteSets, TLC

(***************************************************************************)
(* Code units the handlers and the JSON grammar name.                       *)
(***************************************************************************)
BS == 8
TAB == 9
LF == 10
FF == 12
CR == 13
SPACE == 32
QUOTE == 34
PLUS == 43
COMMA == 44
MINUS == 45
DOT == 46
SLASH == 47
ZERO == 48
COLON == 58
UpperE == 69
LBRACKET == 91
BACKSLASH == 92
RBRACKET == 93
LowerB == 98
LowerE == 101
LowerF == 102
LowerN == 110
LowerR == 114
LowerT == 116
LowerU == 117
LBRACE == 123
RBRACE == 125

TrueText == <<116, 114, 117, 101>>
FalseText == <<102, 97, 108, 115, 101>>
NullText == <<110, 117, 108, 108>>

\* WhiteSpace and LineTerminator of ECMA-262: what String.prototype.trim strips.
IsTrimSpace(c) ==
  \/ c \in {9, 10, 11, 12, 13, 32, 160, 5760, 8232, 8233, 8239, 8287, 12288, 65279}
  \/ (c >= 8192 /\ c <= 8202)

\* JSON whitespace: the only characters JSON.parse skips between tokens.
IsJsonSpace(c) == c \in {TAB, LF, CR, SPACE}

IsDigit(c) == c >= 48 /\ c <= 57

IsHex(c) == (c >= 48 /\ c <= 57) \/ (c >= 65 /\ c <= 70) \/ (c >= 97 /\ c <= 102)

HexVal(c) == IF c <= 57 THEN c - 48 ELSE IF c >= 97 THEN c - 87 ELSE c - 55

HexChar(v) == IF v < 10 THEN 48 + v ELSE 87 + v

RECURSIVE TrimStart(_)
TrimStart(t) ==
  IF t # <<>> /\ IsTrimSpace(Head(t)) THEN TrimStart(Tail(t)) ELSE t

RECURSIVE TrimEnd(_)
TrimEnd(t) ==
  IF t # <<>> /\ IsTrimSpace(t[Len(t)]) THEN TrimEnd(SubSeq(t, 1, Len(t) - 1)) ELSE t

\* String.prototype.trim
Trim(t) == TrimEnd(TrimStart(t))

(***************************************************************************)
(* JSON values.  Every value is a record of one shape; t is its type.       *)
(*   num:  digs are the significant digits d1..dk (d1, dk # 0), pt is n     *)
(*         with value = 0.d1..dk * 10^n; zero has no digits.                *)
(*   inf:  Infinity (neg: -Infinity), the double of an overflowing literal. *)
(*   obj:  keys and kids in the engine's property order.                    *)
(***************************************************************************)
Val(t, neg, digs, pt, s, keys, kids) ==
  [t |-> t, neg |-> neg, digs |-> digs, pt |-> pt, s |-> s, keys |-> keys, kids |-> kids]

VNull == Val("null", FALSE, <<>>, 0, <<>>, <<>>, <<>>)
VBool(b) == Val(IF b THEN "true" ELSE "false", FALSE, <<>>, 0, <<>>, <<>>, <<>>)
VNum(neg, digs, pt) == Val("num", neg, digs, pt, <<>>, <<>>, <<>>)
VZero == Val("num", FALSE, <<>>, 0, <<>>, <<>>, <<>>)
VInf(neg) == Val("inf", neg, <<>>, 0, <<>>, <<>>, <<>>)
VStr(s) == Val("str", FALSE, <<>>, 0, s, <<>>, <<>>)
VArr(kids) == Val("arr", FALSE, <<>>, 0, <<>>, <<>>, kids)
VObj(keys, kids) == Val("obj", FALSE, <<>>, 0, <<>>, keys, kids)

(***************************************************************************)
(* Numbers                                                                  *)
(***************************************************************************)
RECURSIVE StripLeadingZeros(_)
StripLeadingZeros(d) ==
  IF d # <<>> /\ Head(d) = 0 THEN StripLeadingZeros(Tail(d)) ELSE d

RECURSIVE StripTrailingZeros(_)
StripTrailingZeros(d) ==
  IF d # <<>> /\ d[Len(d)] = 0 THEN StripTrailingZeros(SubSeq(d, 1, Len(d) - 1)) ELSE d

\* The digits of 2^1024 - 2^970 = 1.79769313486231580793...e308: a literal at or
\* above it rounds to Infinity.
OverflowDigits == <<1, 7, 9, 7, 6, 9, 3, 1, 3, 4, 8, 6, 2, 3, 1, 5, 8, 0, 7, 9, 3>>

RECURSIVE DigitsGE(_, _)
DigitsGE(d, e) ==
  IF e = <<>> THEN TRUE
  ELSE IF d = <<>> THEN \A i \in 1..Len(e) : e[i] = 0
  ELSE IF Head(d) # Head(e) THEN Head(d) > Head(e)
  ELSE DigitsGE(Tail(d), Tail(e))

\* The double with significant digits digs and decimal point at pt.
RoundToDouble(neg, digs, pt) ==
  IF digs = <<>> THEN VZero
  ELSE IF pt - 1 > 308 \/ (pt - 1 = 308 /\ DigitsGE(digs, OverflowDigits)) THEN VInf(neg)
  ELSE IF pt - 1 < -324 THEN VZero
  ELSE VNum(neg, digs, pt)

\* The double of the literal with digits d (integer and fraction digits together),
\* fl fraction digits and exponent ex.
MakeNumber(neg, d, fl, ex) ==
  RoundToDouble(neg, StripTrailingZeros(StripLeadingZeros(d)),
                Len(StripLeadingZeros(d)) + ex - fl)

\* The exponent digits t[i..j-1] as an integer, saturating far beyond any double's
\* exponent (TLC's integers are 32 bits wide).
RECURSIVE DigitsToInt(_, _, _, _)
DigitsToInt(t, i, j, acc) ==
  IF i >= j THEN acc
  ELSE DigitsToInt(t, i + 1, j, IF acc >= 100000 THEN acc ELSE acc * 10 + (t[i] - 48))

RECURSIVE IntToDigits(_)
IntToDigits(k) ==
  IF k < 10 THEN <<48 + k>> ELSE Append(IntToDigits(k \div 10), 48 + (k % 10))

Zeros(k) == [i \in 1..k |-> 48]

DigitChars(d) == [i \in 1..Len(d) |-> 48 + d[i]]

DigitValues(ds) == [i \in 1..Len(ds) |-> ds[i] - 48]

\* The exponent part of Number::toString for decimal exponent ex.
ExponentText(ex) ==
  IF ex < 0 THEN <<LowerE, MINUS>> \o IntToDigits(-ex) ELSE <<LowerE, PLUS>> \o IntToDigits(ex)

\* Number::toString (ECMA-262 6.1.6.1.20), radix 10: the k digits ds with the
\* decimal point after the n-th.
FormatDigits(ds, k, n) ==
  IF k <= n /\ n <= 21 THEN ds \o Zeros(n - k)
  ELSE IF 0 < n /\ n <= 21 THEN SubSeq(ds, 1, n) \o <<DOT>> \o SubSeq(ds, n + 1, k)
  ELSE IF -6 < n /\ n <= 0 THEN <<ZERO, DOT>> \o Zeros(-n) \o ds
  ELSE IF k = 1 THEN ds \o ExponentText(n - 1)
  ELSE <<ds[1], DOT>> \o SubSeq(ds, 2, k) \o ExponentText(n - 1)

NumberToString(v) ==
  IF v.digs = <<>> THEN <<ZERO>>
  ELSE (IF v.neg THEN <<MINUS>> ELSE <<>>) \o FormatDigits(DigitChars(v.digs), Len(v.digs), v.pt)

(***************************************************************************)
(* JSON.parse                                                               *)
(***************************************************************************)
\* A parse step's result: the value read and the index after it.
PR(ok, v, i) == [ok |-> ok, v |-> v, i |-> i]

PFail == [ok |-> FALSE, v |-> VNull, i |-> 0]

RECURSIVE SkipWs(_, _)
SkipWs(t, i) ==
  IF i <= Len(t) /\ IsJsonSpace(t[i]) THEN SkipWs(t, i + 1) ELSE i

RECURSIVE DigitRun(_, _)
DigitRun(t, i) ==
  IF i <= Len(t) /\ IsDigit(t[i]) THEN DigitRun(t, i + 1) ELSE i

At(t, i, c) == i <= Len(t) /\ t[i] = c

\* The character a two-character escape \x stands for; -1 if there is none.
SimpleEscape(x) ==
  IF x \in {QUOTE, BACKSLASH, SLASH} THEN x
  ELSE IF x = LowerB THEN BS
  ELSE IF x = LowerF THEN FF
  ELSE IF x = LowerN THEN LF
  ELSE IF x = LowerR THEN CR
  ELSE IF x = LowerT THEN TAB
  ELSE -1

HexEscapeAt(t, j) ==
  /\ j + 5 <= Len(t)
  /\ t[j + 1] = LowerU
  /\ \A k \in (j + 2)..(j + 5) : IsHex(t[k])

HexEscapeValue(t, j) ==
  HexVal(t[j + 2]) * 4096 + HexVal(t[j + 3]) * 256 + HexVal(t[j + 4]) * 16 + HexVal(t[j + 5])

\* The characters of a string literal from index j (after the opening quote),
\* escapes decoded.
RECURSIVE ParseStringBody(_, _, _)
ParseStringBody(t, j, acc) ==
  IF j > Len(t) THEN PFail
  ELSE IF t[j] = QUOTE THEN PR(TRUE, VStr(acc), j + 1)
  ELSE IF t[j] < 32 THEN PFail
  ELSE IF t[j] # BACKSLASH THEN ParseStringBody(t, j + 1, Append(acc, t[j]))
  ELSE IF j + 1 > Len(t) THEN PFail
  ELSE IF SimpleEscape(t[j + 1]) >= 0
    THEN ParseStringBody(t, j + 2, Append(acc, SimpleEscape(t[j + 1])))
  ELSE IF HexEscapeAt(t, j) THEN ParseStringBody(t, j + 6, Append(acc, HexEscapeValue(t, j)))
  ELSE PFail

\* t[i] is '"'.
ParseString(t, i) == ParseStringBody(t, i + 1, <<>>)

\* A number literal:  -? (0 | [1-9][0-9]*) (. [0-9]+)? ([eE] [+-]? [0-9]+)?
\* i0..i1-1 are the integer digits, i1+1..i2-1 the fraction digits (if i2 > i1),
\* i3..i4-1 the exponent digits (if i4 > i2).
NumberValue(t, neg, i0, i1, i2, i3, i4) ==
  MakeNumber(neg,
             DigitValues(SubSeq(t, i0, i1 - 1) \o SubSeq(t, i1 + 1, i2 - 1)),
             IF i2 > i1 THEN i2 - (i1 + 1) ELSE 0,
             IF i4 = i2 THEN 0
             ELSE IF t[i2 + 1] = MINUS THEN -DigitsToInt(t, i3, i4, 0)
             ELSE DigitsToInt(t, i3, i4, 0))

ParseExponentDigits(t, neg, i0, i1, i2, i3, i4) ==
  IF i4 = i3 THEN PFail ELSE PR(TRUE, NumberValue(t, neg, i0, i1, i2, i3, i4), i4)

ParseExponentSign(t, neg, i0, i1, i2, i3) ==
  ParseExponentDigits(t, neg, i0, i1, i2, i3, DigitRun(t, i3))

ParseExponent(t, neg, i0, i1, i2) ==
  IF At(t, i2, LowerE) \/ At(t, i2, UpperE)
    THEN ParseExponentSign(t, neg, i0, i1, i2,
           IF At(t, i2 + 1, MINUS) \/ At(t, i2 + 1, PLUS) THEN i2 + 2 ELSE i2 + 1)
  ELSE PR(TRUE, NumberValue(t, neg, i0, i1, i2, i2, i2), i2)

ParseFractionDigits(t, neg, i0, i1, i2) ==
  IF i2 = i1 + 1 THEN PFail ELSE ParseExponent(t, neg, i0, i1, i2)

ParseFraction(t, neg, i0, i1) ==
  IF i1 = i0 THEN PFail
  ELSE IF At(t, i1, DOT) THEN ParseFractionDigits(t, neg, i0, i1, DigitRun(t, i1 + 1))
  ELSE ParseExponent(t, neg, i0, i1, i1)

ParseInteger(t, neg, i0) ==
  ParseFraction(t, neg, i0, IF At(t, i0, ZERO) THEN i0 + 1 ELSE DigitRun(t, i0))

\* t[i] is '-' or a digit.
ParseNumber(t, i) ==
  IF t[i] = MINUS THEN ParseInteger(t, TRUE, i + 1) ELSE ParseInteger(t, FALSE, i)

Matches(t, i, w) == i + Len(w) - 1 <= Len(t) /\ SubSeq(t, i, i + Len(w) - 1) = w

\* An array index: a canonical numeric string below 2^32 - 1.  Such keys come
\* first, in ascending order, in an object's property order.
IsArrayIndex(key) ==
  /\ key # <<>>
  /\ \A k \in 1..Len(key) : IsDigit(key[k])
  /\ (Len(key) = 1 \/ key[1] # ZERO)
  /\ \/ Len(key) < 10
     \/ Len(key) = 10 /\ ~DigitsGE(key, <<52, 50, 57, 52, 57, 54, 55, 50, 57, 53>>)

IndexLess(x, y) == Len(x) < Len(y) \/ (Len(x) = Len(y) /\ ~DigitsGE(x, y))

InsertAt(seq, p, x) == SubSeq(seq, 1, p) \o <<x>> \o SubSeq(seq, p + 1, Len(seq))

\* The number of index keys of o below key: where a new index key goes.
IndexPlace(o, key) ==
  Cardinality({q \in 1..Len(o.keys) : IsArrayIndex(o.keys[q]) /\ IndexLess(o.keys[q], key)})

\* CreateDataProperty on an ordinary object: a key already present keeps its
\* place and takes the new value (the last duplicate wins).
PutMember(o, key, v) ==
  IF \E p \in 1..Len(o.keys) : o.keys[p] = key
    THEN VObj(o.keys, [p \in 1..Len(o.kids) |-> IF o.keys[p] = key THEN v ELSE o.kids[p]])
  ELSE IF IsArrayIndex(key)
    THEN VObj(InsertAt(o.keys, IndexPlace(o, key), key), InsertAt(o.kids, IndexPlace(o, key), v))
  ELSE VObj(Append(o.keys, key), Append(o.kids, v))

RECURSIVE ParseValue(_, _)
RECURSIVE ParseElements(_, _, _)
RECURSIVE ParseMembers(_, _, _)

\* After an element: ',' and the next one, or ']'.
ElementsNext(t, acc, j) ==
  IF At(t, j, COMMA) THEN ParseElements(t, SkipWs(t, j + 1), acc)
  ELSE IF At(t, j, RBRACKET) THEN PR(TRUE, VArr(acc), j + 1)
  ELSE PFail

ElementParsed(t, acc, r) ==
  IF r.ok THEN ElementsNext(t, Append(acc, r.v), SkipWs(t, r.i)) ELSE PFail

\* The elements of an array from index i (after '[' or ',' and whitespace).
ParseElements(t, i, acc) == ElementParsed(t, acc, ParseValue(t, i))

\* After a member: ',' and the next one, or '}'.
MembersNext(t, o, j) ==
  IF At(t, j, COMMA) THEN ParseMembers(t, SkipWs(t, j + 1), o)
  ELSE IF At(t, j, RBRACE) THEN PR(TRUE, o, j + 1)
  ELSE PFail

MemberParsed(t, o, key, r) ==
  IF r.ok THEN MembersNext(t, PutMember(o, key, r.v), SkipWs(t, r.i)) ELSE PFail

MemberColon(t, o, key, c) ==
  IF At(t, c, COLON) THEN MemberParsed(t, o, key, ParseValue(t, SkipWs(t, c + 1))) ELSE PFail

MemberKey(t, o, k) ==
  IF k.ok THEN MemberColon(t, o, k.v.s, SkipWs(t, k.i)) ELSE PFail

\* The members of an object from index i (after '{' or ',' and whitespace).
ParseMembers(t, i, o) ==
  IF At(t, i, QUOTE) THEN MemberKey(t, o, ParseString(t, i)) ELSE PFail

ParseArray(t, j) ==
  IF At(t, j, RBRACKET) THEN PR(TRUE, VArr(<<>>), j + 1) ELSE ParseElements(t, j, <<>>)

ParseObject(t, j) ==
  IF At(t, j, RBRACE) THEN PR(TRUE, VObj(<<>>, <<>>), j + 1)
  ELSE ParseMembers(t, j, VObj(<<>>, <<>>))

ParseValue(t, i) ==
  IF i > Len(t) THEN PFail
  ELSE IF t[i] = LBRACE THEN ParseObject(t, SkipWs(t, i + 1))
  ELSE IF t[i] = LBRACKET THEN ParseArray(t, SkipWs(t, i + 1))
  ELSE IF t[i] = QUOTE THEN ParseString(t, i)
  ELSE IF t[i] = MINUS \/ IsDigit(t[i]) THEN ParseNumber(t, i)
  ELSE IF Matches(t, i, TrueText) THEN PR(TRUE, VBool(TRUE), i + 4)
  ELSE IF Matches(t, i, FalseText) THEN PR(TRUE, VBool(FALSE), i + 5)
  ELSE IF Matches(t, i, NullText) THEN PR(TRUE, VNull, i + 4)
  ELSE PFail

\* The text is one value and whitespace, and nothing else.
WholeText(t, r) == IF r.ok /\ SkipWs(t, r.i) = Len(t) + 1 THEN r ELSE PFail

\* JSON.parse(text): ok is FALSE where the engine throws SyntaxError.
JsonParse(t) == WholeText(t, ParseValue(t, SkipWs(t, 1)))

(***************************************************************************)
(* JSON.stringify                                                           *)
(***************************************************************************)
IsHighSurrogate(c) == c >= 55296 /\ c <= 56319
IsLowSurrogate(c) == c >= 56320 /\ c <= 57343

UnicodeEscape(c) ==
  <<BACKSLASH, LowerU, HexChar(c \div 4096), HexChar((c \div 256) % 16),
    HexChar((c \div 16) % 16), HexChar(c % 16)>>

\* How QuoteJSONString writes the code unit c (a surrogate that has its pair is
\* written as it is).
QuoteChar(c, paired) ==
  IF c = QUOTE THEN <<BACKSLASH, QUOTE>>
  ELSE IF c = BACKSLASH THEN <<BACKSLASH, BACKSLASH>>
  ELSE IF c = BS THEN <<BACKSLASH, LowerB>>
  ELSE IF c = FF THEN <<BACKSLASH, LowerF>>
  ELSE IF c = LF THEN <<BACKSLASH, LowerN>>
  ELSE IF c = CR THEN <<BACKSLASH, LowerR>>
  ELSE IF c = TAB THEN <<BACKSLASH, LowerT>>
  ELSE IF c < 32 THEN UnicodeEscape(c)
  ELSE IF (IsHighSurrogate(c) \/ IsLowSurrogate(c)) /\ ~paired THEN UnicodeEscape(c)
  ELSE <<c>>

Paired(s, i) ==
  \/ IsHighSurrogate(s[i]) /\ i < Len(s) /\ IsLowSurrogate(s[i + 1])
  \/ IsLowSurrogate(s[i]) /\ i > 1 /\ IsHighSurrogate(s[i - 1])

\* QuoteJSONString (ECMA-262 25.5.2.3) without the enclosing quotes, from index i.
RECURSIVE QuoteBody(_, _)
QuoteBody(s, i) ==
  IF i > Len(s) THEN <<>> ELSE QuoteChar(s[i], Paired(s, i)) \o QuoteBody(s, i + 1)

QuoteJSONString(s) == <<QUOTE>> \o QuoteBody(s, 1) \o <<QUOTE>>

Spaces(k) == [i \in 1..k |-> SPACE]

RECURSIVE Serialize(_, _, _)
RECURSIVE JoinKids(_, _, _, _, _)

\* The serialized kids i..Len joined by sep; an object's are prefixed by key and colon.
JoinKids(v, i, gap, ind, sep) ==
  IF i > Len(v.kids) THEN <<>>
  ELSE (IF i > 1 THEN sep ELSE <<>>)
       \o (IF v.t = "obj"
             THEN QuoteJSONString(v.keys[i]) \o <<COLON>>
                  \o (IF gap > 0 THEN <<SPACE>> ELSE <<>>)
             ELSE <<>>)
       \o Serialize(v.kids[i], gap, ind)
       \o JoinKids(v, i + 1, gap, ind, sep)

\* An array or object between its brackets.
Bracketed(v, open, close, gap, ind) ==
  IF v.kids = <<>> THEN <<open, close>>
  ELSE IF gap = 0 THEN <<open>> \o JoinKids(v, 1, gap, ind, <<COMMA>>) \o <<close>>
  ELSE <<open, LF>> \o Spaces(ind + gap)
       \o JoinKids(v, 1, gap, ind + gap, <<COMMA, LF>> \o Spaces(ind + gap))
       \o <<LF>> \o Spaces(ind) \o <<close>>

\* SerializeJSONProperty: v at indentation ind, gap spaces per level (0: compact).
Serialize(v, gap, ind) ==
  IF v.t \in {"null", "inf"} THEN NullText
  ELSE IF v.t = "true" THEN TrueText
  ELSE IF v.t = "false" THEN FalseText
  ELSE IF v.t = "num" THEN NumberToString(v)
  ELSE IF v.t = "str" THEN QuoteJSONString(v.s)
  ELSE IF v.t = "arr" THEN Bracketed(v, LBRACKET, RBRACKET, gap, ind)
  ELSE Bracketed(v, LBRACE, RBRACE, gap, ind)

\* JSON.stringify(value, null, gap) for gap 0 (no third argument) or 2.
JsonStringify(v, gap) == Serialize(v, gap, 0)

(***************************************************************************)
(* The transforms (src/script.js, "JSON Operations")                        *)
(***************************************************************************)
\* What a transform call ends in: the returned text, or the thrown error (its
\* constructor name and its message, in parts).  called: the repair function
\* was invoked during the call.
Ok(text) == [ok |-> TRUE, text |-> text, name |-> "", message |-> <<>>, called |-> FALSE]

Throw(name, message) ==
  [ok |-> FALSE, text |-> <<>>, name |-> name, message |-> message, called |-> FALSE]

\* The engine's diagnostic in a SyntaxError of JSON.parse (its wording is the
\* engine's own).
ParseDiagnostic == "Unexpected token in JSON"

JsonParseError == Throw("SyntaxError", <<ParseDiagnostic>>)

\* JSON.stringify(JSON.parse(input), null, gap), parsed being the parse's outcome:
\* the parse's SyntaxError propagates.
StringifyParsed(parsed, gap) ==
  IF parsed.ok THEN Ok(JsonStringify(parsed.v, gap)) ELSE JsonParseError

formatJSON(input) == StringifyParsed(JsonParse(input), 2)

\* minifyJSON that returns a text that parses as it is.
minifyJSONAsIs(input) == IF JsonParse(input).ok THEN Ok(input) ELSE JsonParseError

minifyJSON(input) == StringifyParsed(JsonParse(input), 0)

Toast(type, message) == [type |-> type, message |-> message]

\* validateJSON shows one toast and returns nothing (the toast's check mark and
\* cross are left out of the message).
validateJSON(input) ==
  IF JsonParse(input).ok THEN Toast("success", <<"Valid JSON!">>)
  ELSE Toast("error", <<"Invalid: ", ParseDiagnostic>>)

\* The text escapeJSON encodes: the compact serialization of the parsed input,
\* or the input itself where the parse throws.
EscapeSubject(input, parsed) == IF parsed.ok THEN JsonStringify(parsed.v, 0) ELSE input

\* escapeJSON without its catch: the parse's SyntaxError propagates.
escapeJSONNoCatch(input) ==
  IF JsonParse(input).ok
    THEN Ok(JsonStringify(VStr(JsonStringify(JsonParse(input).v, 0)), 0))
  ELSE JsonParseError

escapeJSON(input) == Ok(JsonStringify(VStr(EscapeSubject(input, JsonParse(input))), 0))

\* String.prototype.replace(/\\x/g, r): every match of backslash-x, found left to
\* right in t, replaced by r.
RECURSIVE ReplaceEscape(_, _, _)
ReplaceEscape(t, x, r) ==
  IF Len(t) < 2 THEN t
  ELSE IF t[1] = BACKSLASH /\ t[2] = x THEN <<r>> \o ReplaceEscape(SubSeq(t, 3, Len(t)), x, r)
  ELSE <<t[1]>> \o ReplaceEscape(Tail(t), x, r)

\* The chain of five replace calls of unescapeJSON's catch branch.
ManualUnescape(input) ==
  ReplaceEscape(
    ReplaceEscape(
      ReplaceEscape(
        ReplaceEscape(
          ReplaceEscape(input, LowerN, LF),
          LowerR, CR),
        LowerT, TAB),
      QUOTE, QUOTE),
    BACKSLASH, BACKSLASH)

\* try { return JSON.stringify(JSON.parse(text), null, 2) } catch { return text },
\* parsed being the parse's outcome.
FormatOrKeep(text, parsed) == IF parsed.ok THEN Ok(JsonStringify(parsed.v, 2)) ELSE Ok(text)

\* unescapeJSON's catch branch.
UnescapeManually(manualUnescaped) == FormatOrKeep(manualUnescaped, JsonParse(manualUnescaped))

\* unescapeJSON after its first parse.
UnescapeParsed(input, unescaped) ==
  IF ~unescaped.ok THEN UnescapeManually(ManualUnescape(input))
  ELSE IF unescaped.v.t = "str" THEN FormatOrKeep(unescaped.v.s, JsonParse(unescaped.v.s))
  ELSE Ok(JsonStringify(unescaped.v, 2))

unescapeJSON(input) == UnescapeParsed(input, JsonParse(input))

\* A call of the repair function (the jsonrepair library, opaque here) returns a
\* text or throws.
RepairReturns(text) == [threw |-> FALSE, text |-> text, message |-> ""]
RepairThrows(message) == [threw |-> TRUE, text |-> <<>>, message |-> message]

\* The error fixJSON's second catch throws.
FixError(detail) == Throw("Error", <<"Could not fix JSON: ", detail>>)

Called(result) == [result EXCEPT !.called = TRUE]

\* JSON.stringify(JSON.parse(repaired), null, 2) inside fixJSON's second try.
FixRepaired(parsed) ==
  IF parsed.ok THEN Ok(JsonStringify(parsed.v, 2)) ELSE FixError(ParseDiagnostic)

\* fixJSON's second try: repaired is what the repair function does if it is called.
RepairBranch(input, loaded, repaired) ==
  IF ~loaded THEN FixError("jsonrepair library not loaded")
  ELSE IF repaired.threw THEN Called(FixError(repaired.message))
  ELSE Called(FixRepaired(JsonParse(repaired.text)))

\* fixJSON after its first parse.
FixParsed(input, first, loaded, repaired) ==
  IF first.ok THEN Ok(JsonStringify(first.v, 2)) ELSE RepairBranch(input, loaded, repaired)

\* fixJSON that hands every input to the repair function.
fixJSONAlwaysRepairs(input, loaded, repaired) == RepairBranch(input, loaded, repaired)

\* fixJSON(input) with the library loaded or not.
fixJSON(input, loaded, repaired) == FixParsed(input, JsonParse(input), loaded, repaired)

capitalize(str) ==
  CASE str = "format" -> "Format"
    [] str = "minify" -> "Minify"
    [] str = "fix" -> "Fix"
    [] str = "validate" -> "Validate"
    [] str = "escape" -> "Escape"
    [] str = "unescape" -> "Unescape"

(***************************************************************************)
(* Inputs                                                                   *)
(***************************************************************************)
\* Texts that are JSON: every kind of value, whitespace, escapes, duplicate and
\* index keys, and numbers in and beyond the double range.
ValidTexts ==
  {
    <<123, 34, 97, 34, 58, 49, 44, 34, 98, 34, 58, 91, 49, 44, 50, 44, 51, 93, 125>>,   \* {"a":1,"b":[1,2,3]}
    <<32, 32, 123, 34, 97, 34, 58, 32, 49, 125, 32, 32>>,   \*   {"a": 1}  
    <<91, 93>>,   \* []
    <<123, 32, 125>>,   \* { }
    <<110, 117, 108, 108>>,   \* null
    <<116, 114, 117, 101>>,   \* true
    <<102, 97, 108, 115, 101>>,   \* false
    <<34, 104, 101, 108, 108, 111, 92, 110, 119, 111, 114, 108, 100, 34>>,   \* "hello\nworld"
    <<34, 123, 92, 34, 97, 92, 34, 58, 49, 125, 34>>,   \* "{\"a\":1}"
    <<45, 49, 46, 53, 48, 101, 51>>,   \* -1.50e3
    <<45, 48>>,   \* -0
    <<49, 101, 50, 49>>,   \* 1e21
    <<49, 101, 45, 55>>,   \* 1e-7
    <<49, 101, 57, 57, 57>>,   \* 1e999
    <<91, 45, 49, 101, 57, 57, 57, 93>>,   \* [-1e999]
    <<123, 34, 98, 34, 58, 49, 44, 34, 97, 34, 58, 50, 44, 34, 98, 34, 58, 51, 125>>,   \* {"b":1,"a":2,"b":3}
    <<123, 34, 50, 34, 58, 49, 44, 34, 49, 34, 58, 50, 125>>,   \* {"2":1,"1":2}
    <<91, 49, 44, 91, 50, 44, 123, 34, 120, 34, 58, 110, 117, 108, 108, 125, 93, 44, 34, 115, 34, 93>>,   \* [1,[2,{"x":null}],"s"]
    <<34, 97, 92, 34, 98, 92, 92, 99, 34>>,   \* "a\"b\\c"
    <<34, 92, 117, 48, 48, 52, 49, 92, 117, 48, 48, 48, 49, 34>>,   \* "\u0041\u0001"
    <<34, 32, 120, 32, 34>>,   \* " x "
    <<34, 49, 34>>   \* "1"
  }

\* Texts that are not JSON: the spec's malformed examples, raw text with backslash
\* sequences, surrounding whitespace, blank and empty text.
InvalidTexts ==
  {
    <<123, 97, 58, 49, 44, 125>>,   \* {a:1,}
    <<104, 101, 108, 108, 111, 32, 34, 119, 111, 114, 108, 100, 34>>,   \* hello "world"
    <<91, 49, 44, 93>>,   \* [1,]
    <<39, 97, 39>>,   \* 'a'
    <<160, 91, 49, 44, 32, 50, 93>>,   \* <NBSP>[1, 2]
    <<32, 104, 105, 10>>,   \*  hi<LF>
    <<123, 92, 34, 97, 92, 34, 58, 49, 125>>,   \* {\"a\":1}
    <<97, 92, 116, 98, 92, 114>>,   \* a\tb\r
    <<92, 92, 92, 92, 110>>,   \* \\\\n
    <<32, 32, 32>>,   \*    
    <<>>   \* (empty)
  }

\* What the user types or pastes in the full interface: JSON with whitespace
\* around it, and malformed JSON.
UITexts ==
  {
    <<123, 34, 97, 34, 58, 32, 49, 125, 32>>,   \* {"a": 1} 
    <<123, 97, 58, 49, 44, 125>>   \* {a:1,}
  }

\* Texts the repair function may return: JSON, or text that still does not parse.
RepairTexts ==
  {
    <<123, 34, 97, 34, 58, 49, 125>>,   \* {"a":1}
    <<123, 97>>   \* {a
  }

\* Every text of backslashes, letters n and quotes up to MaxEscapeLen characters.
MaxEscapeLen == 3

EscapeTexts ==
  UNION {[1..k -> {BACKSLASH, LowerN, QUOTE}] : k \in 1..MaxEscapeLen}

TransformTexts == ValidTexts \cup InvalidTexts \cup EscapeTexts

RepairOutcomes ==
  {RepairReturns(t) : t \in RepairTexts} \cup {RepairThrows("Unexpected character")}

\* The swap button is modelled for results up to this length (escape lengthens
\* its input every time it is applied).
MaxSwapLen == 24

(***************************************************************************)
(* State                                                                    *)
(***************************************************************************)
Actions == {"format", "minify", "fix", "validate", "escape", "unescape"}

Transforms == Actions \ {"validate"}

\* The view buttons' data-view values (the page's markup).
Views == {"tree", "code", "raw"}

VARIABLES
  inputEl,          \* inputEl.value, the input text area
  currentOutput,    \* the stored result
  outputEl,         \* outputEl.textContent, the displayed result
  btnActive,        \* view -> its button has class "active"
  containerActive,  \* view -> its container has class "active"
  jsonEditor,       \* the tree editor's content: [set, v]
  repairLoaded,     \* the jsonrepair global is defined
  toasts,           \* the toasts the latest handler showed, in order
  lastClick,        \* the tool button the latest handler was a click on ("": none)
  repairCalled,     \* the latest handler called the repair function
  inputFrom,        \* history: the transform and input that produced inputEl ("": typed)
  outputFrom,       \* history: the transform and input that produced currentOutput
  selectedView      \* history: the view last selected (at first, the markup's)

vars ==
  <<inputEl, currentOutput, outputEl, btnActive, containerActive, jsonEditor,
    repairLoaded, toasts, lastClick, repairCalled, inputFrom, outputFrom, selectedView>>

view == <<btnActive, containerActive, selectedView>>

\* The history of a text no transform produced: typed or pasted input, the empty
\* output.
Typed == [action |-> "", input |-> <<>>]

Active(v) == [w \in Views |-> w = v]

\* The page after DOMContentLoaded, with text in the input area, the view v
\* marked active in the markup, and the jsonrepair library loaded or not.
InitWith(text, v, loaded) ==
  /\ inputEl = text
  /\ currentOutput = <<>>
  /\ outputEl = <<>>
  /\ btnActive = Active(v)
  /\ containerActive = Active(v)
  /\ jsonEditor = [set |-> FALSE, v |-> VNull]
  /\ repairLoaded = loaded
  /\ toasts = <<>>
  /\ lastClick = ""
  /\ repairCalled = FALSE
  /\ inputFrom = Typed
  /\ outputFrom = Typed
  /\ selectedView = v

\* The page with its libraries loaded and nothing entered yet.
Init == \E v \in Views : InitWith(<<>>, v, TRUE)

(***************************************************************************)
(* Handlers                                                                 *)
(***************************************************************************)
\* jsonEditor.set(JSON.parse(text)) in a try: nothing is set where the parse throws.
EditorSet(parsed) == IF parsed.ok THEN [set |-> TRUE, v |-> parsed.v] ELSE jsonEditor

\* setOutput that leaves the tree editor alone.
setOutputNoTree(text) ==
  /\ currentOutput' = text
  /\ outputEl' = text
  /\ UNCHANGED jsonEditor

\* setOutput(text)
setOutput(text) ==
  /\ currentOutput' = text
  /\ outputEl' = text
  /\ jsonEditor' = IF btnActive["tree"] THEN EditorSet(JsonParse(text)) ELSE jsonEditor

\* The switch of performAction, for the transforms.
Transform(action, input, repaired) ==
  CASE action = "format" -> formatJSON(input)
    [] action = "minify" -> minifyJSON(input)
    [] action = "fix" -> fixJSON(input, repairLoaded, repaired)
    [] action = "escape" -> escapeJSON(input)
    [] action = "unescape" -> unescapeJSON(input)

\* performAction's guard on blank input.
RefuseBlank ==
  /\ toasts' = <<Toast("warning", <<"Please enter some text first">>)>>
  /\ repairCalled' = FALSE
  /\ UNCHANGED <<currentOutput, outputEl, jsonEditor, outputFrom>>

\* The validate case without its return: control reaches setOutput(result) with
\* result still "".
ValidateCaseFallsThrough(input) ==
  /\ setOutput(<<>>)
  /\ toasts' = <<validateJSON(input), Toast("success", <<"Validate", " completed!">>)>>
  /\ repairCalled' = FALSE
  /\ outputFrom' = [action |-> "validate", input |-> input]

\* performAction's validate case: the verdict toast, and return.
ValidateCase(input) ==
  /\ toasts' = <<validateJSON(input)>>
  /\ repairCalled' = FALSE
  /\ UNCHANGED <<currentOutput, outputEl, jsonEditor, outputFrom>>

\* A catch that also clears the output.
FinishActionClearing(action, input, result) ==
  /\ repairCalled' = result.called
  /\ IF result.ok
       THEN /\ setOutput(result.text)
            /\ toasts' = <<Toast("success", <<capitalize(action), " completed!">>)>>
            /\ outputFrom' = [action |-> action, input |-> input]
       ELSE /\ setOutput(<<>>)
            /\ toasts' = <<Toast("error", result.message)>>
            /\ outputFrom' = Typed

\* performAction after the switch: setOutput and the success toast, or the catch.
FinishAction(action, input, result) ==
  /\ repairCalled' = result.called
  /\ IF result.ok
       THEN /\ setOutput(result.text)
            /\ toasts' = <<Toast("success", <<capitalize(action), " completed!">>)>>
            /\ outputFrom' = [action |-> action, input |-> input]
       ELSE /\ toasts' = <<Toast("error", result.message)>>
            /\ UNCHANGED <<currentOutput, outputEl, jsonEditor, outputFrom>>

\* performAction on the trimmed input.
PerformOn(action, input, repaired) ==
  IF input = <<>> THEN RefuseBlank
  ELSE IF action = "validate" THEN ValidateCase(input)
  ELSE FinishAction(action, input, Transform(action, input, repaired))

\* performAction(action): a click on a tool button.  repaired is what the repair
\* function does if this call reaches it.
performAction(action, repaired) ==
  /\ PerformOn(action, Trim(inputEl), repaired)
  /\ lastClick' = action
  /\ UNCHANGED <<inputEl, view, repairLoaded, inputFrom>>

\* The "input" event of the text area: the user edits the text.
TypeInput(text) ==
  /\ inputEl' = text
  /\ inputFrom' = Typed
  /\ toasts' = <<>>
  /\ lastClick' = ""
  /\ repairCalled' = FALSE
  /\ UNCHANGED <<currentOutput, outputEl, view, jsonEditor, repairLoaded, outputFrom>>

\* The clear button.
ClearInput ==
  /\ inputEl' = <<>>
  /\ inputFrom' = Typed
  /\ toasts' = <<>>
  /\ lastClick' = ""
  /\ repairCalled' = FALSE
  /\ UNCHANGED <<currentOutput, outputEl, view, jsonEditor, repairLoaded, outputFrom>>

\* The paste button: the clipboard read gives text, or fails.
PasteInput(text, readOk) ==
  /\ IF readOk
       THEN /\ inputEl' = text
            /\ inputFrom' = Typed
            /\ toasts' = <<Toast("success", <<"Pasted from clipboard">>)>>
       ELSE /\ toasts' = <<Toast("error", <<"Failed to read clipboard">>)>>
            /\ UNCHANGED <<inputEl, inputFrom>>
  /\ lastClick' = ""
  /\ repairCalled' = FALSE
  /\ UNCHANGED <<currentOutput, outputEl, view, jsonEditor, repairLoaded, outputFrom>>

\* The copy button: the clipboard write succeeds or fails.
CopyOutput(writeOk) ==
  /\ toasts' =
       IF currentOutput = <<>> THEN <<Toast("warning", <<"Nothing to copy">>)>>
       ELSE IF writeOk THEN <<Toast("success", <<"Copied to clipboard!">>)>>
       ELSE <<Toast("error", <<"Failed to copy">>)>>
  /\ lastClick' = ""
  /\ repairCalled' = FALSE
  /\ UNCHANGED <<inputEl, currentOutput, outputEl, view, jsonEditor, repairLoaded,
                 inputFrom, outputFrom>>

\* The swap button.
Swap ==
  /\ Len(currentOutput) <= MaxSwapLen
  /\ IF currentOutput = <<>>
       THEN /\ toasts' = <<Toast("warning", <<"No result to use">>)>>
            /\ UNCHANGED <<inputEl, inputFrom>>
       ELSE /\ inputEl' = currentOutput
            /\ inputFrom' = outputFrom
            /\ toasts' = <<Toast("success", <<"Result moved to input">>)>>
  /\ lastClick' = ""
  /\ repairCalled' = FALSE
  /\ UNCHANGED <<currentOutput, outputEl, view, jsonEditor, repairLoaded, outputFrom>>

\* switchView's try: jsonEditor.set(JSON.parse(currentOutput)), or the error toast.
ShowTree(parsed) ==
  IF parsed.ok
    THEN /\ jsonEditor' = [set |-> TRUE, v |-> parsed.v]
         /\ toasts' = <<>>
    ELSE /\ toasts' = <<Toast("error", <<"Cannot show tree: Invalid JSON">>)>>
         /\ UNCHANGED jsonEditor

\* switchView(view): a click on a view button.
switchView(v) ==
  /\ btnActive' = Active(v)
  /\ containerActive' = Active(v)
  /\ selectedView' = v
  /\ IF v = "tree" /\ currentOutput # <<>>
       THEN ShowTree(JsonParse(currentOutput))
       ELSE /\ toasts' = <<>>
            /\ UNCHANGED jsonEditor
  /\ lastClick' = ""
  /\ repairCalled' = FALSE
  /\ UNCHANGED <<inputEl, currentOutput, outputEl, repairLoaded, inputFrom, outputFrom>>

\* A click on a tool button; only fix can reach the repair function.
ToolClick ==
  \E action \in Actions :
    \E repaired \in IF action = "fix" THEN RepairOutcomes ELSE {RepairThrows("")} :
      performAction(action, repaired)

Next ==
  \/ ToolClick
  \/ \E text \in UITexts : TypeInput(text)
  \/ ClearInput
  \/ \E text \in UITexts, readOk \in BOOLEAN : PasteInput(text, readOk)
  \/ \E writeOk \in BOOLEAN : CopyOutput(writeOk)
  \/ Swap
  \/ \E v \in Views : switchView(v)

\* The whole interface.
Spec == Init /\ [][Next]_vars

\* The transforms alone, chained by the swap button, on a text already entered.
InitTransforms ==
  \E text \in TransformTexts, loaded \in BOOLEAN : InitWith(text, "code", loaded)

NextTransforms == ToolClick \/ Swap

SpecTransforms == InitTransforms /\ [][NextTransforms]_vars

(***************************************************************************)
(* Properties                                                               *)
(***************************************************************************)
SuccessToast(action) == Toast("success", <<capitalize(action), " completed!">>)

\* What the repair function may do in a click on action (only fix reaches it).
RepairsAt(action) == IF action = "fix" THEN RepairOutcomes ELSE {RepairThrows("")}

\* C1: for every valid JSON text T, escape applied to T and then unescape applied
\* to the result give a text whose parsed value equals parse(T).  Here the input
\* area holds the result of escape on T (moved there by swap) and the output is
\* the result of unescape on it.
C1_RoundTrip ==
  (/\ outputFrom.action = "unescape"
   /\ inputFrom.action = "escape"
   /\ outputFrom.input = Trim(inputEl)
   /\ JsonParse(inputFrom.input).ok)
  => /\ JsonParse(currentOutput).ok
     /\ JsonParse(currentOutput).v = JsonParse(inputFrom.input).v

\* The output of this escape click is a JSON string literal, and success is
\* reported.
EscapeSucceeds ==
  /\ toasts' = <<SuccessToast("escape")>>
  /\ outputFrom' = [action |-> "escape", input |-> Trim(inputEl)]
  /\ JsonParse(currentOutput').ok
  /\ JsonParse(currentOutput').v.t = "str"

\* C2 as stated: escape never fails; for any input, the empty string included, a
\* click on escape produces an output string and reports no error or refusal.
C2_EscapeNeverFails == [][lastClick' = "escape" => EscapeSucceeds]_vars

\* C2 as amended: for any input that is not empty after trimming, a click on
\* escape produces an output string and reports success.
C2_EscapeNonBlank == [][lastClick' = "escape" /\ Trim(inputEl) # <<>> => EscapeSucceeds]_vars

\* Escape has succeeded on text that is not JSON.
C2_Witness ==
  /\ outputFrom.action = "escape"
  /\ ~JsonParse(outputFrom.input).ok
  /\ toasts = <<SuccessToast("escape")>>
  /\ currentOutput # <<>>

\* What a caller can test an error for: its constructor.  (The messages of the
\* errors fixJSON throws all start with "Could not fix JSON: ".)
ErrorKind(result) == result.name

\* C3: fix on text that does not parse, with no repair function loaded, fails
\* with an error kind of its own, one the caller can tell apart from the kind of
\* the failure when the repair function throws or returns text that does not
\* parse.
C3_UnavailableIsDistinct ==
  \A repaired \in RepairOutcomes :
    (/\ Trim(inputEl) # <<>>
     /\ ~JsonParse(Trim(inputEl)).ok
     /\ ~fixJSON(Trim(inputEl), TRUE, repaired).ok)
    => /\ ~fixJSON(Trim(inputEl), FALSE, repaired).ok
       /\ ErrorKind(fixJSON(Trim(inputEl), FALSE, repaired))
            # ErrorKind(fixJSON(Trim(inputEl), TRUE, repaired))

\* C4: a click on fix with input that parses as JSON stores the 2-space
\* serialization of the parsed value and reports success, and the repair
\* function is not called, whether it is loaded or not.
C4_FixValid ==
  [][lastClick' = "fix" /\ JsonParse(Trim(inputEl)).ok
     => /\ currentOutput' = JsonStringify(JsonParse(Trim(inputEl)).v, 2)
        /\ ~repairCalled'
        /\ toasts' = <<SuccessToast("fix")>>]_vars

\* Fix has succeeded on valid JSON with no repair function loaded.
C4_Witness ==
  /\ outputFrom.action = "fix"
  /\ JsonParse(outputFrom.input).ok
  /\ ~repairLoaded
  /\ ~repairCalled
  /\ toasts = <<SuccessToast("fix")>>
  /\ currentOutput # outputFrom.input

IsVerdict(toast) ==
  \/ toast = Toast("success", <<"Valid JSON!">>)
  \/ toast = Toast("error", <<"Invalid: ", ParseDiagnostic>>)

\* This click leaves the stored output, the displayed output and the input text
\* as they were, and emits exactly one verdict.
ValidateOnly ==
  /\ UNCHANGED <<currentOutput, outputEl, inputEl>>
  /\ Len(toasts') = 1
  /\ IsVerdict(toasts'[1])

Replaced(action, result) ==
  /\ result.ok
  /\ currentOutput' = result.text
  /\ outputEl' = result.text
  /\ toasts' = <<SuccessToast(action)>>

\* The click's second outcome: an error is reported and the output is untouched.
Errored ==
  /\ Len(toasts') = 1
  /\ toasts'[1].type = "error"
  /\ UNCHANGED <<currentOutput, outputEl>>

\* The click is refused: a warning and nothing else.
Refused ==
  /\ toasts' = <<Toast("warning", <<"Please enter some text first">>)>>
  /\ UNCHANGED <<currentOutput, outputEl>>

\* Exactly one of the two outcomes, the result being what the transform gives
\* on the trimmed input.
ExactlyOne(action) ==
  \E repaired \in RepairsAt(action) :
    /\ Replaced(action, Transform(action, Trim(inputEl), repaired)) \/ Errored
    /\ ~(Replaced(action, Transform(action, Trim(inputEl), repaired)) /\ Errored)

\* C6 as stated: every click on a transform (format, minify, fix, escape,
\* unescape) ends in exactly one of two outcomes: the output is replaced by the
\* whole result and success is reported, or an error is reported and the output
\* is left as it was.
C6_TwoOutcomes ==
  [][lastClick' \in Transforms => ExactlyOne(lastClick')]_vars

\* C6 as amended: so it is for every input that is not empty after trimming; on
\* blank input the click is refused with a warning and the output is left as it
\* was.
C6_TwoOutcomesOrRefused ==
  [][lastClick' \in Transforms
     => IF Trim(inputEl) = <<>> THEN Refused ELSE ExactlyOne(lastClick')]_vars

\* Format or minify has failed while an earlier result is stored.
C6_Witness ==
  /\ toasts = <<Toast("error", <<ParseDiagnostic>>)>>
  /\ currentOutput # <<>>
  /\ outputFrom.action \in Transforms

\* C7: for every valid JSON text T, minify applied to the output of format on T
\* is the same string as minify applied to T.  Here the input area holds the
\* result of format on T (moved there by swap) and the output is the result of
\* minify on it.
C7_MinifyFormat ==
  (/\ outputFrom.action = "minify"
   /\ inputFrom.action = "format"
   /\ outputFrom.input = Trim(inputEl))
  => /\ minifyJSON(inputFrom.input).ok
     /\ currentOutput = minifyJSON(inputFrom.input).text

\* Minify has run on the result of format on a text that neither of them
\* returns as it is.
C7_Witness ==
  /\ outputFrom.action = "minify"
  /\ inputFrom.action = "format"
  /\ outputFrom.input = Trim(inputEl)
  /\ currentOutput # inputFrom.input
  /\ outputFrom.input # inputFrom.input
  /\ Len(currentOutput) > 2

\* The five backslash sequences replaced in one pass, left to right, over
\* matches that do not overlap.
RECURSIVE SinglePassUnescape(_)
SinglePassUnescape(t) ==
  IF Len(t) < 2 THEN t
  ELSE IF t[1] = BACKSLASH /\ t[2] \in {LowerN, LowerR, LowerT, QUOTE, BACKSLASH}
    THEN <<SimpleEscape(t[2])>> \o SinglePassUnescape(SubSeq(t, 3, Len(t)))
  ELSE <<t[1]>> \o SinglePassUnescape(Tail(t))

\* C8: when unescape's input does not parse as JSON, the candidate string is the
\* input with the five backslash sequences replaced in a single left-to-right
\* pass (the output is the candidate, pretty-printed if it parses).
C8_SinglePass ==
  (outputFrom.action = "unescape" /\ ~JsonParse(outputFrom.input).ok)
  => currentOutput =
       FormatOrKeep(SinglePassUnescape(outputFrom.input),
                    JsonParse(SinglePassUnescape(outputFrom.input))).text

\* C9: a click on escape with input text that does not parse as JSON (and is not
\* blank) stores the JSON string encoding of the input text exactly as it was
\* submitted: parsing the output gives back the input text, whitespace at its
\* ends included.
C9_EscapeAsSubmitted ==
  [][lastClick' = "escape" /\ Trim(inputEl) # <<>> /\ ~JsonParse(inputEl).ok
     => /\ JsonParse(currentOutput').ok
        /\ JsonParse(currentOutput').v = VStr(inputEl)]_vars

\* C10: exactly one view is active, the one last selected; and whenever the tree
\* view is active and the current output is not empty and parses as JSON, the
\* tree editor shows the parsed current output.
C10_TreeShowsOutput ==
  /\ btnActive = Active(selectedView)
  /\ containerActive = Active(selectedView)
  /\ Cardinality({v \in Views : btnActive[v]}) = 1
  /\ (btnActive["tree"] /\ currentOutput # <<>> /\ JsonParse(currentOutput).ok)
     => jsonEditor = [set |-> TRUE, v |-> JsonParse(currentOutput).v]

\* A transform has replaced the output by JSON while the tree view was active.
C10_Witness ==
  /\ btnActive["tree"]
  /\ lastClick \in Transforms
  /\ toasts = <<SuccessToast(lastClick)>>
  /\ JsonParse(currentOutput).ok
  /\ JsonParse(currentOutput).v.t = "obj"

=============================================================================
